---- MODULE Spec2Model ----
(***************************************************************************)
(* Email report scheduling and delivery of superset/tasks/schedules.py.    *)
(*                                                                         *)
(* Time is counted in whole cron ticks (the granularity of a crontab       *)
(* field); an hour is Hour ticks long and a resolution is given in the     *)
(* same unit.                                                              *)
(***************************************************************************)
EXTENDS Integers, Sequences, FiniteSets, TLC

VARIABLES
    ns_call,      \* arguments of the next_schedules call under test
    ns_ret,       \* what iterating that generator produced
    store,        \* the schedule tables: table -> id -> EmailSchedule row
    queue,        \* tasks handed to apply_async, in enqueue order
    window,       \* the periodic trigger: current window, types still to run
    sw_ret,       \* the last schedule_window invocation and its outcome
    pc,           \* where the delivery task stands
    error,        \* the exception that ended the delivery task
    loc,          \* the delivery task's local variables
    driver,       \* the browser session: none, open or quit
    log,          \* browser, login and HTTP calls made, in order
    sent,         \* calls of send_email_smtp, in order
    hr_ret        \* what the last run of schedule_hourly did

resolverVars == <<ns_call, ns_ret>>
dispatchVars == <<store, queue, window, sw_ret, hr_ret>>
deliveryVars == <<pc, error, loc, driver, log, sent>>
vars == <<ns_call, ns_ret, store, queue, window, sw_ret,
          pc, error, loc, driver, log, sent, hr_ret>>

(***************************************************************************)
(* Bounds                                                                  *)
(***************************************************************************)
Hour == 3
MaxTime == 6
MaxRes == 3
MaxClock == 4

Times == 0..MaxTime
Resolutions == 0..MaxRes

(***************************************************************************)
(* croniter                                                                *)
(***************************************************************************)
ValidCrontabs == {"* * * * *", "*/2 * * * *", "0 * * * *"}
Crontabs == ValidCrontabs \cup {"bad"}

\* t is a firing time of the crontab
CronMatch(crontab, t) ==
    CASE crontab = "* * * * *" -> TRUE
      [] crontab = "*/2 * * * *" -> ((t % Hour) % 2) = 0
      [] crontab = "0 * * * *" -> (t % Hour) = 0
      [] OTHER -> FALSE

\* croniter.croniter(crontab, ...) raises on an expression it cannot parse
IsValidCron(crontab) == crontab \in ValidCrontabs

\* croniter.get_next: the first firing time strictly after cur
get_next(crontab, cur) ==
    CHOOSE t \in (cur + 1)..(cur + Hour) :
        /\ CronMatch(crontab, t)
        /\ \A u \in (cur + 1)..(t - 1) : ~CronMatch(crontab, u)

(***************************************************************************)
(* next_schedules                                                          *)
(***************************************************************************)
\* previous = datetime.min: far before every time of the model
DatetimeMin == -1000

\* croniter.croniter(crontab, start_at): the iterator's starting point
CronStart(start_at) == start_at

\* Faulty variant: the boundary test off by one
CrossesBoundaryLate(eta, stop_at) == eta > stop_at

\* if eta >= stop_at: break
CrossesBoundary(eta, stop_at) == eta >= stop_at

\* if eta < start_at: continue
BeforeWindow(eta, start_at) == eta < start_at

\* Faulty variant: the throttle lets a gap one short of the resolution pass
TooFrequentShort(eta, previous, resolution) == eta - previous < resolution - 1

\* if eta - previous < timedelta(seconds=resolution): continue
TooFrequent(eta, previous, resolution) == eta - previous < resolution

\* Faulty variant: previous is never updated
NextPreviousStale(eta, previous) == previous

\* previous = eta, after the yield
NextPrevious(eta, previous) == eta

\* Faulty variant: the throttle test comes before the boundary test, so a
\* throttled candidate is skipped without being compared with stop_at
RECURSIVE all_next_loop_throttle_first(_, _, _, _, _, _)
all_next_loop_throttle_first(crontab, cur, previous, start_at, stop_at, resolution) ==
    LET eta == get_next(crontab, cur) IN
    IF TooFrequent(eta, previous, resolution)
    THEN LET rest == all_next_loop_throttle_first(crontab, eta, previous,
                                                  start_at, stop_at, resolution)
         IN  [yielded |-> rest.yielded, pulled |-> <<eta>> \o rest.pulled]
    ELSE IF CrossesBoundary(eta, stop_at)
    THEN [yielded |-> <<>>, pulled |-> <<eta>>]
    ELSE LET rest == all_next_loop_throttle_first(crontab, eta,
                                                  NextPrevious(eta, previous),
                                                  start_at, stop_at, resolution)
         IN  [yielded |-> <<eta>> \o rest.yielded,
              pulled  |-> <<eta>> \o rest.pulled]

\* The for loop over crons.all_next(datetime), from the iterator position cur:
\* the timestamps yielded and every candidate pulled from the iterator.
RECURSIVE all_next_loop(_, _, _, _, _, _)
all_next_loop(crontab, cur, previous, start_at, stop_at, resolution) ==
    LET eta == get_next(crontab, cur) IN
    IF CrossesBoundary(eta, stop_at)
    THEN [yielded |-> <<>>, pulled |-> <<eta>>]
    ELSE LET keep == /\ ~BeforeWindow(eta, start_at)
                     /\ ~TooFrequent(eta, previous, resolution)
             rest == all_next_loop(crontab, eta,
                                   IF keep THEN NextPrevious(eta, previous)
                                           ELSE previous,
                                   start_at, stop_at, resolution)
         IN  [yielded |-> (IF keep THEN <<eta>> ELSE <<>>) \o rest.yielded,
              pulled  |-> <<eta>> \o rest.pulled]

\* The generator iterated to exhaustion (or to the error it raises).
next_schedules(crontab, start_at, stop_at, resolution) ==
    IF ~IsValidCron(crontab)
    THEN [error |-> "CroniterBadCronError", yielded |-> <<>>, pulled |-> <<>>]
    ELSE LET r == all_next_loop(crontab, CronStart(start_at), DatetimeMin,
                                start_at, stop_at, resolution)
         IN  [error |-> "none", yielded |-> r.yielded, pulled |-> r.pulled]

NoReturn == [error |-> "none", yielded |-> <<>>, pulled |-> <<>>]

(***************************************************************************)
(* Schedule tables (superset/models/schedules.py)                          *)
(***************************************************************************)
ScheduleType == {"slice", "dashboard"}
EmailDeliveryType == {"Attachment", "Inline"}
SliceEmailReportFormat == {"Visualization", "Raw data"}

get_scheduler_model(report_type) ==
    IF report_type = "dashboard" THEN "dashboard_email_schedules"
    ELSE IF report_type = "slice" THEN "slice_email_schedules"
    ELSE "None"

\* Faulty variant: the query ignores the active flag
filter_all(table) == DOMAIN store[table]

\* model_cls.filter(active=True): the ids of the rows with the flag set
filter_active(table) == {id \in DOMAIN store[table] : store[table][id].active}

\* The orders in which a query may return a set of rows
Orderings(S) ==
    {f \in [1..Cardinality(S) -> S] : \A i, j \in DOMAIN f : i # j => f[i] # f[j]}

(***************************************************************************)
(* Delivery task: local state                                              *)
(***************************************************************************)
\* A python mapping with one entry, and None in its place
Mapping(name, content) == [name |-> name, content |-> content]
NoneMapping == Mapping("None", "None")

\* EmailContent = namedtuple('EmailContent', ['body', 'data', 'images'])
EmailContent(body, data, images) == [body |-> body, data |-> data, images |-> images]
NoEmail == EmailContent("unset", NoneMapping, NoneMapping)

NoRow == [active |-> FALSE, delivery_type |-> "None", email_format |-> "None",
          deliver_as_group |-> FALSE, recipients |-> << >>]
NoLocals == [report_type |-> "none", schedule |-> NoRow, flow |-> "none",
             lookups |-> << >>, screenshot |-> "none", exc |-> "none",
             email |-> NoEmail, subject |-> "unset", todo |-> << >>]

\* No delivery task exists
NoDelivery ==
    /\ pc = "Idle" /\ error = "none" /\ loc = NoLocals
    /\ driver = "none" /\ log = << >> /\ sent = << >>

(***************************************************************************)
(* schedule_window                                                         *)
(***************************************************************************)
\* args = (report_type, schedule.id); apply_async(args=args, eta=eta)
Task(report_type, id, eta) == [args |-> <<report_type, id>>, eta |-> eta]

\* The inner for loop: one apply_async per eta, in the order yielded
RECURSIVE apply_async_each(_, _, _)
apply_async_each(report_type, id, etas) ==
    IF etas = << >> THEN << >>
    ELSE <<Task(report_type, id, Head(etas))>>
         \o apply_async_each(report_type, id, Tail(etas))

\* The outer for loop over the fetched schedules; an error raised by the
\* resolver ends it, the tasks enqueued before it stay enqueued.
RECURSIVE schedule_loop(_, _, _, _, _)
schedule_loop(report_type, fetched, start_at, stop_at, resolution) ==
    IF fetched = << >> THEN [error |-> "none", enqueued |-> << >>]
    ELSE LET id == Head(fetched)
             schedule == store[get_scheduler_model(report_type)][id]
             r == next_schedules(schedule.crontab, start_at, stop_at, resolution)
         IN  IF r.error # "none"
             THEN [error |-> r.error, enqueued |-> << >>]
             ELSE LET rest == schedule_loop(report_type, Tail(fetched),
                                            start_at, stop_at, resolution)
                  IN  [error |-> rest.error,
                       enqueued |-> apply_async_each(report_type, id, r.yielded)
                                    \o rest.enqueued]

NoHourly == [called |-> FALSE, start_at |-> 0, stop_at |-> 0,
             completed |-> << >>, error |-> "none"]

NoWindow == [start_at |-> 0, stop_at |-> 0, resolution |-> 0, todo |-> {}]
NoCall == [called |-> FALSE, report_type |-> "none", start_at |-> 0,
           stop_at |-> 0, resolution |-> 0, fetched |-> << >>,
           enqueued |-> << >>, error |-> "none"]

\* schedule_window(report_type, start_at, stop_at, resolution), invoked by
\* the periodic trigger for the current window.
schedule_window(report_type) ==
    /\ report_type \in window.todo
    /\ \E fetched \in Orderings(filter_active(get_scheduler_model(report_type))) :
         LET r == schedule_loop(report_type, fetched, window.start_at,
                                window.stop_at, window.resolution)
         IN  /\ queue' = queue \o r.enqueued
             /\ sw_ret' = [called |-> TRUE, report_type |-> report_type,
                           start_at |-> window.start_at,
                           stop_at |-> window.stop_at,
                           resolution |-> window.resolution,
                           fetched |-> fetched, enqueued |-> r.enqueued,
                           error |-> r.error]
    /\ window' = [window EXCEPT !.todo = @ \ {report_type}]
    /\ UNCHANGED <<store, hr_ret, resolverVars, deliveryVars>>

\* The periodic trigger moves on to the window that starts where the last
\* one stopped.
NextWindow ==
    /\ window.todo = {}
    /\ \E stop_at \in (window.stop_at + 1)..MaxClock :
         window' = [window EXCEPT !.start_at = window.stop_at,
                                  !.stop_at = stop_at,
                                  !.todo = ScheduleType]
    /\ UNCHANGED <<store, queue, sw_ret, hr_ret, resolverVars, deliveryVars>>

DashboardIds == {1, 2}
SliceIds == {1}

DispatchRows == [active : BOOLEAN, crontab : Crontabs]

InitDispatch ==
    /\ ns_call = [crontab |-> "bad", start_at |-> 0, stop_at |-> 0,
                  resolution |-> 0, done |-> TRUE]
    /\ ns_ret = NoReturn
    /\ \E d \in [DashboardIds -> DispatchRows], s \in [SliceIds -> DispatchRows] :
         store = [t \in {"dashboard_email_schedules", "slice_email_schedules"} |->
                    IF t = "dashboard_email_schedules" THEN d ELSE s]
    /\ queue = << >>
    /\ \E resolution \in Resolutions :
         window = [NoWindow EXCEPT !.resolution = resolution]
    /\ sw_ret = NoCall
    /\ hr_ret = NoHourly
    /\ NoDelivery

NextDispatch ==
    \/ \E report_type \in ScheduleType : schedule_window(report_type)
    \/ NextWindow

SpecDispatch == InitDispatch /\ [][NextDispatch]_vars

(***************************************************************************)
(* schedule_hourly, the beat job                                           *)
(***************************************************************************)
\* def schedule_window(report_type, start_at, stop_at, resolution): four
\* positional parameters, none with a default
schedule_window_params == <<"report_type", "start_at", "stop_at", "resolution">>

\* Python binds positional arguments to the parameters before the body runs
\* and raises TypeError when a parameter without default gets no argument.
BindError(params, args) ==
    IF Len(args) # Len(params) THEN "TypeError" ELSE "none"

\* The arguments schedule_hourly passes: (report_type, start_at, stop_at)
hourly_args(report_type, start_at, stop_at) == <<report_type, start_at, stop_at>>

\* datetime.now().replace(microsecond=0, second=0, minute=0)
top_of_hour(now) == now - (now % Hour)

\* The two schedule_window calls of schedule_hourly, in order; fetched gives
\* the rows each query would return. An exception ends the job.
RECURSIVE hourly_calls(_, _, _, _)
hourly_calls(types, fetched, start_at, stop_at) ==
    IF types = << >>
    THEN [error |-> "none", completed |-> << >>, enqueued |-> << >>]
    ELSE LET report_type == Head(types)
             args == hourly_args(report_type, start_at, stop_at)
             bind == BindError(schedule_window_params, args)
         IN  IF bind # "none"
             THEN [error |-> bind, completed |-> << >>, enqueued |-> << >>]
             ELSE LET r == schedule_loop(args[1], fetched[report_type],
                                         args[2], args[3], args[4])
                      rest == hourly_calls(Tail(types), fetched, start_at, stop_at)
                  IN  IF r.error # "none"
                      THEN [error |-> r.error, completed |-> << >>,
                            enqueued |-> r.enqueued]
                      ELSE [error |-> rest.error,
                            completed |-> <<args>> \o rest.completed,
                            enqueued |-> r.enqueued \o rest.enqueued]

schedule_hourly ==
    /\ ~hr_ret.called
    /\ \E now \in Times :
       \E d \in Orderings(filter_active("dashboard_email_schedules")),
          s \in Orderings(filter_active("slice_email_schedules")) :
         LET start_at == top_of_hour(now)
             stop_at == start_at + Hour
             fetched == [t \in ScheduleType |-> IF t = "dashboard" THEN d ELSE s]
             r == hourly_calls(<<"dashboard", "slice">>, fetched, start_at, stop_at)
         IN  /\ queue' = queue \o r.enqueued
             /\ hr_ret' = [called |-> TRUE, start_at |-> start_at,
                           stop_at |-> stop_at, completed |-> r.completed,
                           error |-> r.error]
    /\ UNCHANGED <<store, window, sw_ret, resolverVars, deliveryVars>>

InitHourly ==
    /\ ns_call = [crontab |-> "bad", start_at |-> 0, stop_at |-> 0,
                  resolution |-> 0, done |-> TRUE]
    /\ ns_ret = NoReturn
    /\ \E d \in [DashboardIds -> DispatchRows], s \in [SliceIds -> DispatchRows] :
         store = [t \in {"dashboard_email_schedules", "slice_email_schedules"} |->
                    IF t = "dashboard_email_schedules" THEN d ELSE s]
    /\ queue = << >>
    /\ window = NoWindow
    /\ sw_ret = NoCall
    /\ hr_ret = NoHourly
    /\ NoDelivery

NextHourly == schedule_hourly

SpecHourly == InitHourly /\ [][NextHourly]_vars

(***************************************************************************)
(* The resolver on its own: any crontab, window and resolution.            *)
(***************************************************************************)
InitResolver ==
    /\ store = << >> /\ queue = << >> /\ window = NoWindow /\ sw_ret = NoCall
    /\ hr_ret = NoHourly
    /\ NoDelivery
    /\ ns_call \in [crontab : Crontabs, start_at : Times, stop_at : Times,
                    resolution : Resolutions, done : {FALSE}]
    /\ ns_ret = NoReturn

IterateNextSchedules ==
    /\ ~ns_call.done
    /\ ns_call' = [ns_call EXCEPT !.done = TRUE]
    /\ ns_ret' = next_schedules(ns_call.crontab, ns_call.start_at,
                                ns_call.stop_at, ns_call.resolution)
    /\ UNCHANGED <<dispatchVars, deliveryVars>>

NextResolver == IterateNextSchedules

SpecResolver == InitResolver /\ [][NextResolver]_vars

(***************************************************************************)
(* Delivery task                                                           *)
(***************************************************************************)
otherVars == <<ns_call, ns_ret, window, sw_ret, hr_ret>>

Terminal == {"Delivered", "SkippedInactive", "Failed"}

\* An exception leaves the task
Raise(exc) == pc' = "Failed" /\ error' = exc

\* The user switches a schedule on or off in the store.
SetActive ==
    /\ pc # "Idle"
    /\ \E table \in DOMAIN store :
         \E id \in DOMAIN store[table] :
             store' = [store EXCEPT ![table][id].active = ~@]
    /\ UNCHANGED <<queue, deliveryVars, otherVars>>

\* Faulty variant: the active flag is not looked at
IsSkippedNever(schedule) == FALSE

\* if not schedule.active: return
IsSkipped(schedule) == ~schedule.active

\* The worker starts the task with the arguments it was enqueued with.
schedule_email_report ==
    /\ pc = "Pending"
    /\ queue # << >>
    /\ LET report_type == Head(queue).args[1]
           schedule_id == Head(queue).args[2]
           schedule == store[get_scheduler_model(report_type)][schedule_id]
       IN  /\ loc' = [loc EXCEPT !.report_type = report_type,
                                 !.schedule = schedule]
           /\ pc' = IF IsSkipped(schedule) THEN "SkippedInactive"
                    ELSE IF report_type = "dashboard" THEN "deliver_dashboard"
                    ELSE "deliver_slice"
    /\ queue' = Tail(queue)
    /\ UNCHANGED <<store, error, driver, log, sent, otherVars>>

\* soft_time_limit=300: the worker raises SoftTimeLimitExceeded in the
\* running task; inside the try block the finally clause still runs.
SoftTimeLimit ==
    /\ pc \notin Terminal \cup {"Idle", "Pending", "dd_quit", "sv_quit"}
    /\ IF pc \in {"dd_screenshot", "dd_fallback"}
       THEN /\ pc' = "dd_quit"
            /\ loc' = [loc EXCEPT !.exc = "SoftTimeLimitExceeded"]
            /\ UNCHANGED error
       ELSE IF pc \in {"sv_screenshot", "sv_fallback"}
       THEN /\ pc' = "sv_quit"
            /\ loc' = [loc EXCEPT !.exc = "SoftTimeLimitExceeded"]
            /\ UNCHANGED error
       ELSE /\ Raise("SoftTimeLimitExceeded")
            /\ UNCHANGED loc
    /\ UNCHANGED <<store, queue, driver, log, sent, otherVars>>

(***************************************************************************)
(* create_webdriver                                                        *)
(***************************************************************************)
\* A call of the browser driver: it returns or raises
DriverCall(here, call, next) ==
    /\ pc = here
    /\ log' = Append(log, call)
    /\ \E outcome \in {"ok", "WebDriverException"} :
         IF outcome = "ok"
         THEN pc' = next /\ UNCHANGED error
         ELSE Raise(outcome)
    /\ UNCHANGED <<store, queue, loc, driver, sent, otherVars>>

\* _get_auth_cookies(): logs the reports user in and returns its cookie
GetAuthCookies(here, next) ==
    /\ pc = here
    /\ log' = Append(log, "login_user")
    /\ \E outcome \in {"ok", "AuthenticationFailure"} :
         IF outcome = "ok"
         THEN pc' = next /\ UNCHANGED error
         ELSE Raise(outcome)
    /\ UNCHANGED <<store, queue, loc, driver, sent, otherVars>>

\* where create_webdriver returns to
AfterCreateWebdriver ==
    IF loc.flow = "deliver_dashboard" THEN "dd_set_window_size"
    ELSE "sv_set_window_size"

\* driver = driver_class(**kwargs)
cw_init ==
    /\ pc = "cw_init"
    /\ log' = Append(log, "driver_class")
    /\ \E outcome \in {"ok", "WebDriverException"} :
         IF outcome = "ok"
         THEN pc' = "cw_welcome" /\ driver' = "open" /\ UNCHANGED error
         ELSE Raise(outcome) /\ UNCHANGED driver
    /\ UNCHANGED <<store, queue, loc, sent, otherVars>>

\* driver.get(welcome_url)
cw_welcome == DriverCall("cw_welcome", "get:welcome", "cw_loginbox")

\* Faulty variant: the test of the login box the wrong way round
LoginboxBranchInverted(elements) ==
    IF elements THEN AfterCreateWebdriver ELSE "cw_auth"

\* if not elements: return driver; otherwise the cookies are set
LoginboxBranch(elements) ==
    IF ~elements THEN AfterCreateWebdriver ELSE "cw_auth"

\* elements = driver.find_elements_by_id('loginbox'); the log tells whether
\* the login box was found
cw_loginbox ==
    /\ pc = "cw_loginbox"
    /\ \E elements \in BOOLEAN :
         /\ log' = Append(log, IF elements THEN "loginbox:prompt"
                                           ELSE "loginbox:none")
         /\ pc' = LoginboxBranch(elements)
    /\ UNCHANGED <<store, queue, error, loc, driver, sent, otherVars>>

\* for cookie in _get_auth_cookies():
cw_auth == GetAuthCookies("cw_auth", "cw_add_cookie")

\* driver.add_cookie(info); return driver
cw_add_cookie ==
    /\ DriverCall("cw_add_cookie", "add_cookie", AfterCreateWebdriver)

(***************************************************************************)
(* The screenshot flows: deliver_dashboard and _get_slice_visualization    *)
(***************************************************************************)
\* driver = create_webdriver()
CallCreateWebdriver(here, flow) ==
    /\ pc = here
    /\ pc' = "cw_init"
    /\ loc' = [loc EXCEPT !.flow = flow]
    /\ UNCHANGED <<store, queue, error, driver, log, sent, otherVars>>

\* time.sleep(PAGE_RENDER_WAIT)
Sleep(here, next) ==
    /\ pc = here
    /\ pc' = next
    /\ log' = Append(log, "sleep")
    /\ UNCHANGED <<store, queue, error, loc, driver, sent, otherVars>>

\* Faulty variant: every lookup error is retried
RetryExceptionsAll ==
    {"RemoteDisconnected", "ConnectionResetError", "NoSuchElementException"}

\* retry((RemoteDisconnected, ConnectionResetError))
RetryExceptions == {"RemoteDisconnected", "ConnectionResetError"}

\* Attempts the retry wrapper makes at most: the call and one retry
RetryAttempts == 2

\* superset.utils.retry: whether the wrapper calls again after exc
retry(exceptions, exc, attempts) ==
    exc \in exceptions /\ attempts < RetryAttempts

\* element = get_element(...): find_element under the retry wrapper
GetElement(here, next) ==
    /\ pc = here
    /\ log' = Append(log, "find_element")
    /\ \E outcome \in {"ok", "RemoteDisconnected", "ConnectionResetError",
                       "NoSuchElementException"} :
         /\ loc' = [loc EXCEPT !.lookups = Append(@, outcome)]
         /\ IF outcome = "ok"
            THEN pc' = next /\ UNCHANGED error
            ELSE IF retry(RetryExceptions, outcome, Len(loc.lookups) + 1)
            THEN pc' = here /\ UNCHANGED error
            ELSE Raise(outcome)
    /\ UNCHANGED <<store, queue, driver, sent, otherVars>>

\* try: screenshot = element.screenshot_as_png
Screenshot(here, fallback, quit) ==
    /\ pc = here
    /\ log' = Append(log, "element.screenshot_as_png")
    /\ \E outcome \in {"ok", "WebDriverException", "ConnectionResetError"} :
         IF outcome = "ok"
         THEN pc' = quit /\ loc' = [loc EXCEPT !.screenshot = "element"]
         ELSE IF outcome = "WebDriverException"
         THEN pc' = fallback /\ UNCHANGED loc
         ELSE pc' = quit /\ loc' = [loc EXCEPT !.exc = outcome]
    /\ UNCHANGED <<store, queue, error, driver, sent, otherVars>>

\* except WebDriverException: screenshot = driver.screenshot()
Fallback(here, quit) ==
    /\ pc = here
    /\ log' = Append(log, "driver.screenshot")
    /\ pc' = quit
    /\ \E outcome \in {"ok", "AttributeError"} :
         IF outcome = "ok"
         THEN loc' = [loc EXCEPT !.screenshot = "page"]
         ELSE loc' = [loc EXCEPT !.exc = outcome]
    /\ UNCHANGED <<store, queue, error, driver, sent, otherVars>>

\* finally: driver.quit(); an exception of the try block goes on after it
Quit(here, next) ==
    /\ pc = here
    /\ log' = Append(log, "driver.quit")
    /\ driver' = "quit"
    /\ IF loc.exc # "none"
       THEN Raise(loc.exc)
       ELSE pc' = next /\ UNCHANGED error
    /\ UNCHANGED <<store, queue, loc, sent, otherVars>>

\* Faulty variant: an unknown delivery_type falls through without an error
generate_mail_content_default(schedule, screenshot) ==
    IF schedule.delivery_type = "Attachment"
    THEN [error |-> "none",
          email |-> EmailContent("link", Mapping("screenshot.jpg", screenshot),
                                 NoneMapping)]
    ELSE IF schedule.delivery_type = "Inline"
    THEN [error |-> "none",
          email |-> EmailContent("link+img", NoneMapping,
                                 Mapping("msgid", screenshot))]
    ELSE [error |-> "none", email |-> NoEmail]

\* Faulty variant: the inline branch also attaches the screenshot
generate_mail_content_both(schedule, screenshot) ==
    IF schedule.delivery_type = "Attachment"
    THEN [error |-> "none",
          email |-> EmailContent("link", Mapping("screenshot.jpg", screenshot),
                                 NoneMapping)]
    ELSE IF schedule.delivery_type = "Inline"
    THEN [error |-> "none",
          email |-> EmailContent("link+img", Mapping("screenshot.jpg", screenshot),
                                 Mapping("msgid", screenshot))]
    ELSE [error |-> "UnboundLocalError", email |-> NoEmail]

\* _generate_mail_content(schedule, screenshot, name, url)
_generate_mail_content(schedule, screenshot) ==
    IF schedule.delivery_type = "Attachment"
    THEN [error |-> "none",
          email |-> EmailContent("link", Mapping("screenshot.jpg", screenshot),
                                 NoneMapping)]
    ELSE IF schedule.delivery_type = "Inline"
    THEN [error |-> "none",
          email |-> EmailContent("link+img", NoneMapping,
                                 Mapping("msgid", screenshot))]
    ELSE [error |-> "UnboundLocalError", email |-> NoEmail]

\* email = _generate_mail_content(...)
GenerateMailContent(here, next) ==
    /\ pc = here
    /\ LET r == _generate_mail_content(loc.schedule, loc.screenshot) IN
       IF r.error = "none"
       THEN pc' = next /\ loc' = [loc EXCEPT !.email = r.email] /\ UNCHANGED error
       ELSE Raise(r.error) /\ UNCHANGED loc
    /\ UNCHANGED <<store, queue, driver, log, sent, otherVars>>

deliver_dashboard == CallCreateWebdriver("deliver_dashboard", "deliver_dashboard")
dd_set_window_size == DriverCall("dd_set_window_size", "set_window_size", "dd_get")
dd_get == DriverCall("dd_get", "get:target", "dd_sleep")
dd_sleep == Sleep("dd_sleep", "dd_get_element")
dd_get_element == GetElement("dd_get_element", "dd_screenshot")
dd_screenshot == Screenshot("dd_screenshot", "dd_fallback", "dd_quit")
dd_fallback == Fallback("dd_fallback", "dd_quit")
dd_quit == Quit("dd_quit", "dd_generate")
dd_generate == GenerateMailContent("dd_generate", "dd_deliver_email")

_get_slice_visualization ==
    CallCreateWebdriver("_get_slice_visualization", "_get_slice_visualization")
sv_set_window_size == DriverCall("sv_set_window_size", "set_window_size", "sv_get")
sv_get == DriverCall("sv_get", "get:target", "sv_sleep")
sv_sleep == Sleep("sv_sleep", "sv_get_element")
sv_get_element == GetElement("sv_get_element", "sv_screenshot")
sv_screenshot == Screenshot("sv_screenshot", "sv_fallback", "sv_quit")
sv_fallback == Fallback("sv_fallback", "sv_quit")
sv_quit == Quit("sv_quit", "sv_generate")
sv_generate == GenerateMailContent("sv_generate", "ds_deliver_email")

(***************************************************************************)
(* _get_slice_data and deliver_slice                                       *)
(***************************************************************************)
\* for cookie in _get_auth_cookies(): cookies['session'] = cookie
sd_auth == GetAuthCookies("_get_slice_data", "sd_request")

\* response = requests.get(slice_url, cookies=cookies)
\* response.raise_for_status()
sd_request ==
    /\ pc = "sd_request"
    /\ log' = Append(log, "requests.get")
    /\ \E outcome \in {"ok", "HTTPError", "ConnectionError"} :
         IF outcome = "ok"
         THEN pc' = "sd_format" /\ UNCHANGED error
         ELSE Raise(outcome)
    /\ UNCHANGED <<store, queue, loc, driver, sent, otherVars>>

\* The EmailContent built from the response body
slice_data_content(schedule, content) ==
    IF schedule.delivery_type = "Inline"
    THEN IF content = "empty"
         THEN [error |-> "IndexError", email |-> NoEmail]
         ELSE [error |-> "none",
               email |-> EmailContent("table", NoneMapping, NoneMapping)]
    ELSE IF schedule.delivery_type = "Attachment"
    THEN [error |-> "none",
          email |-> EmailContent("link", Mapping("csv", content), NoneMapping)]
    ELSE [error |-> "UnboundLocalError", email |-> NoEmail]

\* rows = ...; the delivery_type branches; return EmailContent(body, data, None)
sd_format ==
    /\ pc = "sd_format"
    /\ \E content \in {"rows", "empty"} :
         LET r == slice_data_content(loc.schedule, content) IN
         IF r.error = "none"
         THEN /\ pc' = "ds_deliver_email"
              /\ loc' = [loc EXCEPT !.email = r.email]
              /\ UNCHANGED error
         ELSE Raise(r.error) /\ UNCHANGED loc
    /\ UNCHANGED <<store, queue, driver, log, sent, otherVars>>

\* The email_format branches of deliver_slice
SliceBranch(email_format) ==
    IF email_format = "Raw data" THEN "_get_slice_data"
    ELSE IF email_format = "Visualization" THEN "_get_slice_visualization"
    ELSE "RuntimeError"

deliver_slice ==
    /\ pc = "deliver_slice"
    /\ LET branch == SliceBranch(loc.schedule.email_format) IN
       IF branch = "RuntimeError"
       THEN Raise("RuntimeError")
       ELSE pc' = branch /\ UNCHANGED error
    /\ UNCHANGED <<store, queue, loc, driver, log, sent, otherVars>>

(***************************************************************************)
(* _deliver_email                                                          *)
(***************************************************************************)
\* config.get('EMAIL_REPORT_BCC_ADDRESS', None)
EMAIL_REPORT_BCC_ADDRESS == "audit@x.com"

\* superset.utils.get_email_address_list: the addresses of a delimited list
RECURSIVE get_email_address_list(_)
get_email_address_list(recipients) ==
    IF recipients = << >> THEN << >>
    ELSE IF Head(recipients) = "," THEN get_email_address_list(Tail(recipients))
    ELSE <<Head(recipients)>> \o get_email_address_list(Tail(recipients))

\* Faulty variant: the deliver_as_group flag is not looked at
get_recipients_split(schedule) ==
    LET list == get_email_address_list(schedule.recipients) IN
    [i \in 1..Len(list) |->
        [to |-> [type |-> "str", value |-> <<list[i]>>],
         bcc |-> EMAIL_REPORT_BCC_ADDRESS]]

\* _get_recipients(schedule): the (to, bcc) pairs, in order
_get_recipients(schedule) ==
    IF schedule.deliver_as_group
    THEN << [to |-> [type |-> "tuple", value |-> schedule.recipients],
             bcc |-> EMAIL_REPORT_BCC_ADDRESS] >>
    ELSE LET list == get_email_address_list(schedule.recipients) IN
         [i \in 1..Len(list) |->
             [to |-> [type |-> "str", value |-> <<list[i]>>],
              bcc |-> EMAIL_REPORT_BCC_ADDRESS]]

\* subject = __('%(prefix)s %(title)s', ...)
Subject(report_type) ==
    IF report_type = "dashboard" THEN "prefix dashboard_title"
    ELSE "prefix slice_name"

\* subject = ...; _deliver_email(schedule, subject, email): the recipients
\* generator is set up, the loop ends at once when it yields nothing
CallDeliverEmail(here) ==
    /\ pc = here
    /\ LET todo == _get_recipients(loc.schedule) IN
       /\ loc' = [loc EXCEPT !.todo = todo,
                             !.subject = Subject(loc.report_type)]
       /\ pc' = IF todo = << >> THEN "Delivered" ELSE "send_email_smtp"
    /\ UNCHANGED <<store, queue, error, driver, log, sent, otherVars>>

dd_deliver_email == CallDeliverEmail("dd_deliver_email")
ds_deliver_email == CallDeliverEmail("ds_deliver_email")

\* One pass of the for loop of _deliver_email: send_email_smtp(to, subject,
\* email.body, config, data=..., images=..., bcc=bcc); what it raises
\* leaves the loop and the task.
send_email_smtp ==
    /\ pc = "send_email_smtp"
    /\ \E outcome \in {"ok", "SMTPException"} :
         /\ sent' = Append(sent,
               [to |-> Head(loc.todo).to, bcc |-> Head(loc.todo).bcc,
                subject |-> loc.subject, email |-> loc.email,
                outcome |-> outcome])
         /\ IF outcome = "ok"
            THEN /\ pc' = IF Tail(loc.todo) = << >> THEN "Delivered"
                          ELSE "send_email_smtp"
                 /\ UNCHANGED error
            ELSE Raise(outcome)
    /\ loc' = [loc EXCEPT !.todo = Tail(@)]
    /\ UNCHANGED <<store, queue, driver, log, otherVars>>

(***************************************************************************)
(* One delivery task, enqueued for a schedule that was active              *)
(***************************************************************************)
MaxRecipients == 3

Addresses == <<"a@x.com", "b@x.com", "c@x.com", "d@x.com", "e@x.com">>

\* The recipients column holding n addresses separated by commas
RECURSIVE RecipientSpec(_)
RecipientSpec(n) ==
    IF n = 0 THEN << >>
    ELSE IF n = 1 THEN <<Addresses[1]>>
    ELSE RecipientSpec(n - 1) \o <<",", Addresses[n]>>

DeliveryRows(report_type) ==
    [active : {TRUE},
     delivery_type : EmailDeliveryType \cup {"None"},
     email_format : IF report_type = "slice"
                    THEN SliceEmailReportFormat \cup {"None"} ELSE {"None"},
     deliver_as_group : BOOLEAN,
     recipients : {RecipientSpec(n) : n \in 0..MaxRecipients}]

InitDelivery ==
    /\ ns_call = [crontab |-> "bad", start_at |-> 0, stop_at |-> 0,
                  resolution |-> 0, done |-> TRUE]
    /\ ns_ret = NoReturn
    /\ window = NoWindow
    /\ sw_ret = NoCall
    /\ hr_ret = NoHourly
    /\ \E report_type \in ScheduleType :
         \E row \in DeliveryRows(report_type) :
             /\ store = [t \in {get_scheduler_model(report_type)} |->
                            [id \in {1} |-> row]]
             /\ queue = <<Task(report_type, 1, 0)>>
    /\ pc = "Pending" /\ error = "none" /\ loc = NoLocals
    /\ driver = "none" /\ log = << >> /\ sent = << >>

NextDelivery ==
    \/ SetActive
    \/ schedule_email_report
    \/ SoftTimeLimit
    \/ cw_init \/ cw_welcome \/ cw_loginbox \/ cw_auth \/ cw_add_cookie
    \/ deliver_dashboard \/ dd_set_window_size \/ dd_get \/ dd_sleep
    \/ dd_get_element \/ dd_screenshot \/ dd_fallback \/ dd_quit \/ dd_generate
    \/ deliver_slice
    \/ _get_slice_visualization \/ sv_set_window_size \/ sv_get \/ sv_sleep
    \/ sv_get_element \/ sv_screenshot \/ sv_fallback \/ sv_quit \/ sv_generate
    \/ sd_auth \/ sd_request \/ sd_format
    \/ dd_deliver_email \/ ds_deliver_email \/ send_email_smtp

SpecDelivery == InitDelivery /\ [][NextDelivery]_vars

(***************************************************************************)
(* Properties of the resolver                                              *)
(***************************************************************************)
Range(seq) == {seq[i] : i \in DOMAIN seq}

\* The firing times of a crontab in the half-open window [start_at, stop_at)
Firings(crontab, start_at, stop_at) ==
    {t \in start_at..(stop_at - 1) : CronMatch(crontab, t)}

\* C1: every timestamp next_schedules yields lies in [start_at, stop_at) and
\* is a firing time of the crontab.
C1_YieldedInWindowAndMatch ==
    ns_call.done =>
        \A i \in DOMAIN ns_ret.yielded :
            /\ ns_call.start_at <= ns_ret.yielded[i]
            /\ ns_ret.yielded[i] < ns_call.stop_at
            /\ CronMatch(ns_call.crontab, ns_ret.yielded[i])

C1_Witness ==
    /\ ns_call.done
    /\ ns_call.crontab = "*/2 * * * *"
    /\ ns_call.start_at > 0
    /\ Len(ns_ret.yielded) >= 2

\* C2: with resolution 0 next_schedules yields every firing time in
\* [start_at, stop_at), a firing time equal to start_at included, and yields
\* nothing when start_at = stop_at.
C2_EveryFiringYielded ==
    (ns_call.done /\ ns_call.resolution = 0 /\ IsValidCron(ns_call.crontab)) =>
        /\ Range(ns_ret.yielded)
             = Firings(ns_call.crontab, ns_call.start_at, ns_call.stop_at)
        /\ (ns_call.start_at = ns_call.stop_at => ns_ret.yielded = << >>)

\* C4: the yielded timestamps are strictly increasing and consecutive ones
\* are at least resolution apart.
C4_IncreasingAndSpaced ==
    ns_call.done =>
        \A i \in DOMAIN ns_ret.yielded :
            i > 1 =>
                /\ ns_ret.yielded[i - 1] < ns_ret.yielded[i]
                /\ ns_ret.yielded[i] - ns_ret.yielded[i - 1] >= ns_call.resolution

C4_Witness ==
    /\ ns_call.done
    /\ ns_call.resolution >= 2
    /\ Len(ns_ret.yielded) >= 2
    /\ Len(ns_ret.pulled) > Len(ns_ret.yielded) + 1

(***************************************************************************)
(* Properties of the dispatch loop                                         *)
(***************************************************************************)
\* The tasks of a queue that carry the given arguments
TasksOf(q, report_type, id) ==
    SelectSeq(q, LAMBDA task : task.args = <<report_type, id>>)

\* How many tasks of q are for (report_type, id) at eta
CountTasks(q, report_type, id, eta) ==
    Cardinality({i \in DOMAIN q : q[i] = Task(report_type, id, eta)})

\* C3: over windows that tile time without gap or overlap, with resolution
\* 0, every firing time of an active schedule in the tiled range has exactly
\* one task enqueued.
C3_TiledFiringsEnqueuedOnce ==
    (window.resolution = 0 /\ window.todo = {}) =>
        \A report_type \in ScheduleType :
            LET table == store[get_scheduler_model(report_type)] IN
            (\A id \in DOMAIN table :
                table[id].active => IsValidCron(table[id].crontab)) =>
                \A id \in DOMAIN table :
                    table[id].active =>
                        \A t \in Firings(table[id].crontab, 0, window.stop_at) :
                            CountTasks(queue, report_type, id, t) = 1

Last(seq) == seq[Len(seq)]

\* The row the next task to start will read
RowOfHead ==
    store[get_scheduler_model(Head(queue).args[1])][Head(queue).args[2]]

C7_SessionTerminatedOnEveryExit ==
    pc \in {"Delivered", "Failed", "dd_generate", "sv_generate",
            "dd_deliver_email", "ds_deliver_email", "send_email_smtp"}
        => driver # "open"

\* C8: the element lookup is attempted at most twice; a second attempt is
\* made exactly after a connection-reset or remote-disconnected error of the
\* first; the flow goes on after a lookup that succeeded; an error of the
\* second attempt, or any other error of the first, leaves the task.
C8_LookupRetriedOnce ==
    LET lookups == loc.lookups IN
    /\ Len(lookups) <= 2
    /\ Len(lookups) = 2 => lookups[1] \in {"RemoteDisconnected", "ConnectionResetError"}
    /\ (lookups # << >> /\ lookups[1] = "NoSuchElementException")
           => /\ Len(lookups) = 1
              /\ pc = "Failed"
              /\ error = "NoSuchElementException"
    /\ (Len(lookups) = 2 /\ lookups[2] # "ok")
           => pc = "Failed" /\ error = lookups[2]
    /\ (lookups # << >> /\ Last(lookups) = "ok")
           => pc \notin {"dd_get_element", "sv_get_element"}
    /\ (pc = "Failed" /\ error \in {"RemoteDisconnected", "ConnectionResetError"}
          /\ lookups # << >> /\ Last(lookups) # "ok")
           => Len(lookups) = 2
    /\ pc \in {"dd_screenshot", "sv_screenshot"}
           => lookups # << >> /\ Last(lookups) = "ok"

C8_Witness ==
    /\ pc = "Delivered"
    /\ loc.lookups = <<"ConnectionResetError", "ok">>

\* C9: an email is sent only after capture and formatting have completed:
\* whenever send_email_smtp has been called the EmailContent exists, every
\* call carries it, and the capture it was built from is finished; a task
\* that failed before the EmailContent existed has sent nothing.
C9_NoSendBeforeContent ==
    /\ sent # << >> =>
         /\ loc.email # NoEmail
         /\ \A i \in DOMAIN sent : sent[i].email = loc.email
         /\ \/ loc.screenshot # "none" /\ driver = "quit"
            \/ \E i \in DOMAIN log : log[i] = "requests.get"
    /\ (pc = "Failed" /\ loc.email = NoEmail) => sent = << >>
    /\ pc = "send_email_smtp" => loc.email # NoEmail

C9_Witness ==
    /\ pc = "Failed"
    /\ error = "UnboundLocalError"
    /\ driver = "quit"
    /\ sent = << >>

\* C10: with deliver_as_group false every address of the list gets a send
\* attempt, whichever earlier sends failed.
C10_EveryRecipientAttempted ==
    (pc \in Terminal /\ sent # << >> /\ ~loc.schedule.deliver_as_group
       /\ error # "SoftTimeLimitExceeded")
        => Len(sent) = Len(get_email_address_list(loc.schedule.recipients))

\* C11: a delivery that succeeded made exactly one send_email_smtp call with
\* the whole recipients column as its to when deliver_as_group is set, and
\* otherwise one call per address of the parsed list, in the list's order;
\* all calls carry the configured bcc, the same subject and the same
\* EmailContent.
C11_OneSendPerLogicalRecipient ==
    pc = "Delivered" =>
        LET schedule == loc.schedule
            list == get_email_address_list(schedule.recipients)
        IN  /\ schedule.deliver_as_group =>
                 /\ Len(sent) = 1
                 /\ sent[1].to.value = schedule.recipients
            /\ ~schedule.deliver_as_group =>
                 /\ Len(sent) = Len(list)
                 /\ \A i \in DOMAIN sent : sent[i].to.value = <<list[i]>>
            /\ \A i \in DOMAIN sent :
                 /\ sent[i].outcome = "ok"
                 /\ sent[i].bcc = EMAIL_REPORT_BCC_ADDRESS
                 /\ sent[i].subject = Subject(loc.report_type)
                 /\ sent[i].email = loc.email
                 /\ loc.email # NoEmail

C11_Witness ==
    /\ pc = "Delivered"
    /\ loc.schedule.deliver_as_group
    /\ Len(get_email_address_list(loc.schedule.recipients)) >= 2
    /\ Len(sent) = 1

\* C12: every EmailContent handed to _deliver_email has at most one of data
\* and images set: Attachment sets data (the screenshot or the CSV) and no
\* images, Inline with a screenshot sets images and no data, and both are
\* None exactly for a slice in the raw data format delivered Inline.
HandedToDeliverEmail ==
    pc \in {"dd_deliver_email", "ds_deliver_email", "send_email_smtp", "Delivered"}

IsSliceData ==
    loc.report_type = "slice" /\ loc.schedule.email_format = "Raw data"

C12_AttachmentXorInline ==
    HandedToDeliverEmail =>
        LET email == loc.email
            delivery_type == loc.schedule.delivery_type
        IN  /\ ~(email.data # NoneMapping /\ email.images # NoneMapping)
            /\ delivery_type = "Attachment" =>
                 /\ email.images = NoneMapping
                 /\ email.data \in {Mapping("screenshot.jpg", loc.screenshot),
                                    Mapping("csv", "rows"), Mapping("csv", "empty")}
                 /\ email.data # Mapping("screenshot.jpg", "none")
            /\ (delivery_type = "Inline" /\ ~IsSliceData) =>
                 /\ email.images = Mapping("msgid", loc.screenshot)
                 /\ loc.screenshot \in {"element", "page"}
                 /\ email.data = NoneMapping
            /\ (email.data = NoneMapping /\ email.images = NoneMapping)
                 <=> (IsSliceData /\ delivery_type = "Inline")
            /\ \A i \in DOMAIN sent : sent[i].email = email

C12_Witness ==
    /\ pc = "Delivered"
    /\ sent # << >>
    /\ loc.schedule.delivery_type = "Inline"
    /\ loc.email.images = Mapping("msgid", "element")

\* C13: a task whose schedule has a delivery_type outside {Attachment, Inline}
\* or, for a slice, an email_format outside {Visualization, Raw data} fails
\* before any network action: no browser session, no login, no export
\* request and no email, and it is never delivered.
IsUnsupported ==
    \/ loc.schedule.delivery_type \notin EmailDeliveryType
    \/ loc.report_type = "slice" /\ loc.schedule.email_format \notin SliceEmailReportFormat

C13_UnsupportedFailsBeforeNetwork ==
    (pc \notin {"Idle", "Pending", "SkippedInactive"} /\ IsUnsupported) =>
        /\ log = << >>
        /\ driver = "none"
        /\ sent = << >>
        /\ pc # "Delivered"

\* C14: with a malformed crontab on an active schedule next_schedules raises
\* before it yields a timestamp, and the schedule_window invocation that
\* meets it ends with the error and has enqueued no task at all, not even
\* for the schedules it processed before that one.
HasMalformed(report_type, ids) ==
    \E i \in DOMAIN ids :
        ~IsValidCron(store[get_scheduler_model(report_type)][ids[i]].crontab)

C14_MalformedCronEnqueuesNothing ==
    (sw_ret.called /\ HasMalformed(sw_ret.report_type, sw_ret.fetched)) =>
        /\ sw_ret.error = "CroniterBadCronError"
        /\ sw_ret.enqueued = << >>
        /\ \A id \in Range(sw_ret.fetched) :
             LET schedule == store[get_scheduler_model(sw_ret.report_type)][id] IN
             ~IsValidCron(schedule.crontab) =>
                 next_schedules(schedule.crontab, sw_ret.start_at, sw_ret.stop_at,
                                sw_ret.resolution).yielded = << >>

\* C15: a run of schedule_hourly computes the window from the top of the
\* current hour to 3600 seconds later and completes two schedule_window
\* invocations, dashboard then slice, each with that window and resolution
\* 0, so that the due tasks of both types are on the queue.
C15_HourlyCompletesBothInvocations ==
    hr_ret.called =>
        /\ hr_ret.start_at % Hour = 0
        /\ hr_ret.stop_at = hr_ret.start_at + Hour
        /\ hr_ret.error \in {"none", "CroniterBadCronError"}
        /\ hr_ret.error = "none" =>
             /\ hr_ret.completed =
                  << <<"dashboard", hr_ret.start_at, hr_ret.stop_at, 0>>,
                     <<"slice", hr_ret.start_at, hr_ret.stop_at, 0>> >>
             /\ \A report_type \in ScheduleType :
                  \A id \in filter_active(get_scheduler_model(report_type)) :
                      LET schedule == store[get_scheduler_model(report_type)][id]
                          r == next_schedules(schedule.crontab, hr_ret.start_at,
                                              hr_ret.stop_at, 0)
                      IN  \A i \in DOMAIN r.yielded :
                              Task(report_type, id, r.yielded[i]) \in Range(queue)

\* C16: next_schedules terminates on every finite window: the candidates it
\* pulls from the iterator increase, all but the last lie before stop_at and
\* the last is the first one at or beyond stop_at, so exactly one candidate
\* at or beyond stop_at is pulled, whatever the throttle rejects.
C16_StopsAtFirstCandidateBeyondWindow ==
    (ns_call.done /\ ns_ret.error = "none") =>
        LET pulled == ns_ret.pulled
            width == IF ns_call.stop_at > ns_call.start_at
                     THEN ns_call.stop_at - ns_call.start_at ELSE 0
        IN  /\ pulled # << >>
            /\ \A i \in DOMAIN pulled :
                 /\ pulled[i] > ns_call.start_at
                 /\ i < Len(pulled) => /\ pulled[i] < pulled[i + 1]
                                       /\ pulled[i] < ns_call.stop_at
            /\ Last(pulled) >= ns_call.stop_at
            /\ Cardinality({i \in DOMAIN pulled : pulled[i] >= ns_call.stop_at}) = 1
            /\ Len(pulled) <= width + 1
            /\ \A t \in Firings(ns_call.crontab, ns_call.start_at + 1, Last(pulled)) :
                 t \in Range(pulled)

C16_Witness ==
    /\ ns_call.done
    /\ ns_ret.error = "none"
    /\ ns_call.resolution > 0
    /\ Len(ns_ret.yielded) = 1
    /\ Len(ns_ret.pulled) >= 3

\* The etas of the tasks of one schedule in a sequence of tasks, in order
RECURSIVE EtasOf(_, _)
EtasOf(tasks, args) ==
    IF tasks = << >> THEN << >>
    ELSE (IF Head(tasks).args = args THEN <<Head(tasks).eta>> ELSE << >>)
         \o EtasOf(Tail(tasks), args)

Spaced(etas, resolution) ==
    \A i \in 1..(Len(etas) - 1) : etas[i + 1] - etas[i] >= resolution

ScheduleArgs ==
    {<<"dashboard", id>> : id \in DashboardIds} \cup {<<"slice", id>> : id \in SliceIds}

\* C17 as stated: over successive contiguous windows with the same positive
\* resolution any two consecutive etas enqueued for one schedule are at least
\* resolution apart, the last eta of a window and the first of the next
\* included.
C17_SpacedAcrossWindows ==
    window.resolution > 0 =>
        \A args \in ScheduleArgs : Spaced(EtasOf(queue, args), window.resolution)

\* C17 amended: within one invocation of schedule_window any two consecutive
\* etas enqueued for one schedule are at least resolution apart; every
\* invocation starts afresh, enqueueing the first candidate of its window
\* whatever the last eta of the window before was.
C17_SpacedWithinInvocation ==
    sw_ret.called =>
        \A args \in ScheduleArgs :
            LET etas == EtasOf(sw_ret.enqueued, args)
                crontab == store[get_scheduler_model(args[1])][args[2]].crontab
                candidates == Firings(crontab, sw_ret.start_at + 1, sw_ret.stop_at)
            IN  /\ Spaced(etas, sw_ret.resolution)
                /\ etas # << >> => /\ args[1] = sw_ret.report_type
                                   /\ \A t \in candidates : etas[1] <= t

C17_Witness ==
    /\ sw_ret.called
    /\ sw_ret.resolution >= 2
    /\ \E args \in ScheduleArgs : Len(EtasOf(sw_ret.enqueued, args)) >= 2

\* Greedy left-to-right selection over a set of times: the earliest is kept,
\* each later one is kept exactly when it lies at least resolution after
\* the one kept last.
Earliest(S) == CHOOSE t \in S : \A u \in S : t <= u

RECURSIVE GreedyFrom(_, _, _)
GreedyFrom(S, kept, resolution) ==
    IF S = {} THEN << >>
    ELSE LET t == Earliest(S) IN
         IF t - kept >= resolution
         THEN <<t>> \o GreedyFrom(S \ {t}, t, resolution)
         ELSE GreedyFrom(S \ {t}, kept, resolution)

GreedySelect(S, resolution) ==
    IF S = {} THEN << >>
    ELSE <<Earliest(S)>> \o GreedyFrom(S \ {Earliest(S)}, Earliest(S), resolution)

\* C18: the throttle is greedy against the timestamp kept last, so what
\* next_schedules yields is the greedy left-to-right selection over the
\* firing times of the crontab in the window [start_at, stop_at).
C18_GreedyOverWindowFirings ==
    (ns_call.done /\ ns_ret.error = "none") =>
        ns_ret.yielded =
            GreedySelect(Firings(ns_call.crontab, ns_call.start_at, ns_call.stop_at),
                         ns_call.resolution)

\* The same selection over the candidates the iterator supplies, which lie
\* strictly after start_at.
GreedyOverCandidates ==
    (ns_call.done /\ ns_ret.error = "none") =>
        ns_ret.yielded =
            GreedySelect({t \in Range(ns_ret.pulled) : t < ns_call.stop_at},
                         ns_call.resolution)

\* C19: when element.screenshot_as_png raised WebDriverException the
\* full-page screenshot is taken in its place and the task goes on to build
\* and send the email with that image: the fallback never makes the task
\* fail; the browser session is quit after the fallback capture, whether it
\* returned or raised.
FallbackTaken == "driver.screenshot" \in Range(log)

C19_FallbackCaptureProceeds ==
    FallbackTaken =>
        /\ loc.screenshot = "page"
        /\ loc.exc # "AttributeError"
        /\ error # "AttributeError"
        /\ pc \notin {"dd_quit", "sv_quit"} => driver = "quit"
        /\ HandedToDeliverEmail =>
             "page" \in {loc.email.data.content, loc.email.images.content}

\* The part of C19 about the session: it is quit after the fallback capture
FallbackSessionTerminated ==
    (FallbackTaken /\ pc \notin {"dd_quit", "sv_quit"}) => driver = "quit"

\* C20: the browser loads the welcome URL before the target URL; when the
\* login box was found there, the reports user is logged in and its session
\* cookie added to the browser before the target URL is loaded; when it was
\* not found, nobody is logged in and no cookie is added.
Before(a, i) == \E j \in 1..(i - 1) : log[j] = a

C20_WelcomeThenCookieThenTarget ==
    /\ \A i \in DOMAIN log :
         log[i] = "get:target" =>
             /\ \E w \in 1..(i - 1) :
                  /\ log[w] = "get:welcome"
                  /\ log[w + 1] \in {"loginbox:prompt", "loginbox:none"}
             /\ Before("loginbox:prompt", i) =>
                  \E p, a, c \in 1..(i - 1) :
                      /\ p < a /\ a < c
                      /\ log[p] = "loginbox:prompt"
                      /\ log[a] = "login_user"
                      /\ log[c] = "add_cookie"
    /\ "loginbox:none" \in Range(log) =>
         /\ "login_user" \notin Range(log)
         /\ "add_cookie" \notin Range(log)
    /\ \A i \in DOMAIN log :
         log[i] \in {"login_user", "add_cookie"} /\ loc.flow # "none" =>
             Before("loginbox:prompt", i)

C20_Witness ==
    /\ \E i \in DOMAIN log : log[i] = "get:target" /\ Before("add_cookie", i)
    /\ pc = "Delivered"

====
